---- MODULE Spec2Model ----
(***************************************************************************)
(* fptk: Option / Result ADTs, sequence/traverse, the async fan-in helpers *)
(* and the function combinators, as state machines over which the          *)
(* library's contracts are model-checked.                                  *)
(***************************************************************************)
EXTENDS Integers, Sequences, FiniteSets, TLC

VARIABLES
    call,     \* the last application of a synchronous combinator: [op, args.., ret, ..]
    kind,     \* the async helper being run ("idle" when none)
    tasks,    \* tasks[i]: the Option/Result that task / producer i resolves to
    tstate,   \* tstate[i]: "created" | "running" | "done" | "cancelled"
    order,    \* indices of the completed tasks, in completion order
    hpc,      \* the helper coroutine's position: "init" | "awaiting" | "done"
    idx,      \* sequential traversal: index of the element being awaited
    out,      \* sequential traversal: values collected so far
    ret,      \* the helper's return value (Pending until it returns)
    memo,     \* a thunk / once wrapper: its closure cells and what its calls did
    heap      \* the objects allocated so far; a reference is an index into heap

asyncVars == <<kind, tasks, tstate, order, hpc, idx, out, ret>>
vars      == <<call, kind, tasks, tstate, order, hpc, idx, out, ret, memo, heap>>

----------------------------------------------------------------------------
(* Bounds *)

MaxLen   == 3   \* longest input sequence of sequence_* / traverse_*
MaxTasks == 3   \* most tasks handed to an async helper
MaxChain == 3   \* longest bind chain
MaxCalls == 3   \* most calls made to one thunk / once wrapper or curried callable
MaxArity == 3   \* most positional parameters of a curried function
MaxOps   == 2   \* most combinator calls made over one heap

----------------------------------------------------------------------------
(* Values.  Python's None is the payload "None"; it is an ordinary payload *)
(* of Some / Ok / Err.                                                     *)

None     == "None"
Payloads == {None, "a", "b"}
Values   == {None, "a"}
Errors   == {None, "a", "b"}
Elems    == {"x", "y"}

Some(v) == [tag |-> "Some", value |-> v]
NONE    == [tag |-> "NONE"]
Ok(v)   == [tag |-> "Ok", value |-> v]
Err(e)  == [tag |-> "Err", error |-> e]
Pending == [tag |-> "Pending"]

OptionVals == {NONE} \cup {Some(v) : v \in Payloads}
ResultVals == {Ok(v) : v \in Values} \cup {Err(e) : e \in Errors}

SeqsUpTo(S, n) == UNION {[1..k -> S] : k \in 0..n}

identity(S) == [x \in S |-> x]

----------------------------------------------------------------------------
(* adt/traverse.py.  Each loop is computed as the code runs it and returns *)
(* the value together with what the run touched: `calls`, the elements f   *)
(* was invoked on, in order, and `pulled`, how many elements were taken    *)
(* from the input iterable.                                                *)

\* A loop that drops an absent element and goes on.
RECURSIVE sequence_option_loop_skipping(_, _, _)
sequence_option_loop_skipping(xs, i, acc) ==
    IF i > Len(xs)
    THEN [ret |-> Some(acc), pulled |-> Len(xs)]
    ELSE IF xs[i].tag = "Some"
         THEN sequence_option_loop_skipping(xs, i + 1, Append(acc, xs[i].value))
         ELSE sequence_option_loop_skipping(xs, i + 1, acc)

RECURSIVE sequence_option_loop(_, _, _)
sequence_option_loop(xs, i, acc) ==
    IF i > Len(xs)
    THEN [ret |-> Some(acc), pulled |-> Len(xs)]
    ELSE IF xs[i].tag = "Some"
         THEN sequence_option_loop(xs, i + 1, Append(acc, xs[i].value))
         ELSE [ret |-> NONE, pulled |-> i]

sequence_option(xs) == sequence_option_loop(xs, 1, <<>>).ret

\* A loop that collects the present values and fails only at the end.
RECURSIVE traverse_option_loop_skipping(_, _, _, _, _)
traverse_option_loop_skipping(xs, f, i, acc, calls) ==
    IF i > Len(xs)
    THEN [ret |-> Some(acc), calls |-> calls, pulled |-> Len(xs)]
    ELSE LET ox == f[xs[i]] IN
         IF ox.tag = "Some"
         THEN traverse_option_loop_skipping(xs, f, i + 1, Append(acc, ox.value), Append(calls, i))
         ELSE traverse_option_loop_skipping(xs, f, i + 1, acc, Append(calls, i))

RECURSIVE traverse_option_loop(_, _, _, _, _)
traverse_option_loop(xs, f, i, acc, calls) ==
    IF i > Len(xs)
    THEN [ret |-> Some(acc), calls |-> calls, pulled |-> Len(xs)]
    ELSE LET ox == f[xs[i]] IN
         IF ox.tag = "Some"
         THEN traverse_option_loop(xs, f, i + 1, Append(acc, ox.value), Append(calls, i))
         ELSE [ret |-> NONE, calls |-> Append(calls, i), pulled |-> i]

traverse_option_run(xs, f) == traverse_option_loop(xs, f, 1, <<>>, <<>>)
traverse_option(xs, f) == traverse_option_run(xs, f).ret

\* A loop that keeps going after an Err, so that the last Err wins.
RECURSIVE sequence_result_loop_last_err(_, _, _)
sequence_result_loop_last_err(xs, i, acc) ==
    IF i > Len(xs)
    THEN [ret |-> Ok(acc), pulled |-> Len(xs)]
    ELSE IF xs[i].tag = "Ok"
         THEN sequence_result_loop_last_err(xs, i + 1, Append(acc, xs[i].value))
         ELSE LET rest == sequence_result_loop_last_err(xs, i + 1, acc) IN
              IF rest.ret.tag = "Err"
              THEN rest
              ELSE [ret |-> Err(xs[i].error), pulled |-> Len(xs)]

RECURSIVE sequence_result_loop(_, _, _)
sequence_result_loop(xs, i, acc) ==
    IF i > Len(xs)
    THEN [ret |-> Ok(acc), pulled |-> Len(xs)]
    ELSE IF xs[i].tag = "Ok"
         THEN sequence_result_loop(xs, i + 1, Append(acc, xs[i].value))
         ELSE [ret |-> Err(xs[i].error), pulled |-> i]

sequence_result(xs) == sequence_result_loop(xs, 1, <<>>).ret

\* A loop that applies f to every element before it looks for an Err.
RECURSIVE traverse_result_loop_map_first(_, _, _, _, _)
traverse_result_loop_map_first(xs, f, i, acc, calls) ==
    LET all == [j \in 1..Len(xs) |-> j]
        errs == {j \in 1..Len(xs) : f[xs[j]].tag = "Err"}
    IN  IF errs = {}
        THEN [ret |-> Ok([j \in 1..Len(xs) |-> f[xs[j]].value]), calls |-> all, pulled |-> Len(xs)]
        ELSE [ret |-> Err(f[xs[CHOOSE j \in errs : \A n \in errs : j <= n]].error),
              calls |-> all, pulled |-> Len(xs)]

RECURSIVE traverse_result_loop(_, _, _, _, _)
traverse_result_loop(xs, f, i, acc, calls) ==
    IF i > Len(xs)
    THEN [ret |-> Ok(acc), calls |-> calls, pulled |-> Len(xs)]
    ELSE LET rx == f[xs[i]] IN
         IF rx.tag = "Ok"
         THEN traverse_result_loop(xs, f, i + 1, Append(acc, rx.value), Append(calls, i))
         ELSE [ret |-> Err(rx.error), calls |-> Append(calls, i), pulled |-> i]

traverse_result_run(xs, f) == traverse_result_loop(xs, f, 1, <<>>, <<>>)
traverse_result(xs, f) == traverse_result_run(xs, f).ret

----------------------------------------------------------------------------
(* Async helpers idle while the synchronous combinators are exercised.     *)

AsyncIdle ==
    /\ kind = "idle"
    /\ tasks = <<>>
    /\ tstate = <<>>
    /\ order = <<>>
    /\ hpc = "done"
    /\ idx = 0
    /\ out = <<>>
    /\ ret = Pending

NoCall == [op |-> "none"]
NoMemo == [fn |-> "none"]

----------------------------------------------------------------------------
(* SpecTraverse: one application of sequence_* / traverse_* per behaviour, *)
(* its input drawn from the bounded sets.                                  *)

CallSequenceOption ==
    /\ call = NoCall
    /\ \E xs \in SeqsUpTo(OptionVals, MaxLen) :
            /\ call' = [op |-> "sequence_option", xs |-> xs, ret |-> sequence_option(xs)]
            /\ UNCHANGED <<asyncVars, memo, heap>>

CallSequenceResult ==
    /\ call = NoCall
    /\ \E xs \in SeqsUpTo(ResultVals, MaxLen) :
            /\ call' = [op |-> "sequence_result", xs |-> xs, ret |-> sequence_result(xs)]
            /\ UNCHANGED <<asyncVars, memo, heap>>

CallTraverseOption ==
    /\ call = NoCall
    /\ \E xs \in SeqsUpTo(Elems, MaxLen), f \in [Elems -> OptionVals] :
            /\ call' = [op |-> "traverse_option", xs |-> xs, f |-> f,
                        ret |-> traverse_option(xs, f),
                        calls |-> traverse_option_run(xs, f).calls,
                        pulled |-> traverse_option_run(xs, f).pulled]
            /\ UNCHANGED <<asyncVars, memo, heap>>

CallTraverseResult ==
    /\ call = NoCall
    /\ \E xs \in SeqsUpTo(Elems, MaxLen), f \in [Elems -> ResultVals] :
            /\ call' = [op |-> "traverse_result", xs |-> xs, f |-> f,
                        ret |-> traverse_result(xs, f),
                        calls |-> traverse_result_run(xs, f).calls,
                        pulled |-> traverse_result_run(xs, f).pulled]
            /\ UNCHANGED <<asyncVars, memo, heap>>

CallTraverseResultIdentity ==
    /\ call = NoCall
    /\ \E xs \in SeqsUpTo(ResultVals, MaxLen) :
            /\ call' = [op |-> "traverse_result_identity", xs |-> xs,
                        ret |-> traverse_result(xs, identity(ResultVals))]
            /\ UNCHANGED <<asyncVars, memo, heap>>

InitSync == call = NoCall /\ AsyncIdle /\ memo = NoMemo /\ heap = <<>>

NextTraverse ==
    \/ CallSequenceOption
    \/ CallSequenceResult
    \/ CallTraverseOption
    \/ CallTraverseResult
    \/ CallTraverseResultIdentity

SpecTraverse == InitSync /\ [][NextTraverse]_vars

----------------------------------------------------------------------------
(* async_tools.py: gather_results / gather_results_accumulate.             *)
(* Awaiting asyncio.gather on the tasks schedules every awaitable as a task, *)
(* lets them complete in any order, and resumes the helper with the list   *)
(* of results in argument order once the last one has completed.           *)

GatherKinds == {"gather_results", "gather_results_accumulate"}

\* gather schedules every awaitable it is given.
GatherSchedule(ts) == [i \in 1..Len(ts) |-> "running"]

\* A gather that cancels the siblings still running once a task fails.
GatherOnDoneCancelling(st, i, r) ==
    [j \in 1..Len(st) |->
        IF j = i THEN "done"
        ELSE IF r.tag = "Err" /\ st[j] = "running" THEN "cancelled" ELSE st[j]]

\* gather's bookkeeping when task i resolves to the Result r: the task is
\* finished; its siblings are left as they are, whatever r is.
GatherOnDone(st, i, r) == [st EXCEPT ![i] = "done"]

\* gather's future resolves when every child has finished.
GatherResolved(st) == \A i \in 1..Len(st) : st[i] = "done"

\* The list gather hands back: one result per task, in argument order.
GatherResultList(ts, ord) == [i \in 1..Len(ts) |-> ts[i]]

\* gather_results, lines 41-50: first_err starts as None and is assigned
\* only while it `is None`.
RECURSIVE gather_results_fold(_, _, _, _)
gather_results_fold(results, i, values, first_err) ==
    IF i > Len(results)
    THEN IF first_err # None THEN Err(first_err) ELSE Ok(values)
    ELSE LET r == results[i] IN
         IF r.tag = "Ok"
         THEN gather_results_fold(results, i + 1, Append(values, r.value), first_err)
         ELSE IF first_err = None /\ r.tag = "Err"
              THEN gather_results_fold(results, i + 1, values, r.error)
              ELSE gather_results_fold(results, i + 1, values, first_err)

\* An accumulation that puts each new error in front of the earlier ones.
RECURSIVE gather_results_accumulate_fold_prepend(_, _, _, _)
gather_results_accumulate_fold_prepend(results, i, values, errors) ==
    IF i > Len(results)
    THEN IF errors # <<>> THEN Err(errors) ELSE Ok(values)
    ELSE LET r == results[i] IN
         IF r.tag = "Ok"
         THEN gather_results_accumulate_fold_prepend(results, i + 1, Append(values, r.value), errors)
         ELSE gather_results_accumulate_fold_prepend(results, i + 1, values, <<r.error>> \o errors)

\* gather_results_accumulate, lines 62-71.
RECURSIVE gather_results_accumulate_fold(_, _, _, _)
gather_results_accumulate_fold(results, i, values, errors) ==
    IF i > Len(results)
    THEN IF errors # <<>> THEN Err(errors) ELSE Ok(values)
    ELSE LET r == results[i] IN
         IF r.tag = "Ok"
         THEN gather_results_accumulate_fold(results, i + 1, Append(values, r.value), errors)
         ELSE IF r.tag = "Err"
              THEN gather_results_accumulate_fold(results, i + 1, values, Append(errors, r.error))
              ELSE gather_results_accumulate_fold(results, i + 1, values, errors)

gather_results(results) == gather_results_fold(results, 1, <<>>, None)
gather_results_accumulate(results) == gather_results_accumulate_fold(results, 1, <<>>, <<>>)

\* The helper reaches its await: every task is scheduled.
GatherCall ==
    /\ kind \in GatherKinds
    /\ hpc = "init"
    /\ tstate' = GatherSchedule(tasks)
    /\ hpc' = "awaiting"
    /\ UNCHANGED <<call, memo, heap, kind, tasks, order, idx, out, ret>>

\* Task i runs to its end and resolves.
GatherTaskDone(i) ==
    /\ kind \in GatherKinds
    /\ i \in 1..Len(tasks)
    /\ tstate[i] = "running"
    /\ tstate' = GatherOnDone(tstate, i, tasks[i])
    /\ order' = Append(order, i)
    /\ UNCHANGED <<call, memo, heap, kind, tasks, hpc, idx, out, ret>>

\* gather resolved: the helper resumes, folds the results and returns.
GatherReturn ==
    /\ kind \in GatherKinds
    /\ hpc = "awaiting"
    /\ GatherResolved(tstate)
    /\ ret' = IF kind = "gather_results"
              THEN gather_results(GatherResultList(tasks, order))
              ELSE gather_results_accumulate(GatherResultList(tasks, order))
    /\ hpc' = "done"
    /\ UNCHANGED <<call, memo, heap, kind, tasks, tstate, order, idx, out>>

InitGather ==
    /\ call = NoCall
    /\ memo = NoMemo
    /\ heap = <<>>
    /\ kind \in GatherKinds
    /\ tasks \in SeqsUpTo(ResultVals, MaxTasks)
    /\ tstate = [i \in 1..Len(tasks) |-> "created"]
    /\ order = <<>>
    /\ hpc = "init"
    /\ idx = 0
    /\ out = <<>>
    /\ ret = Pending

NextGather ==
    \/ GatherCall
    \/ \E i \in 1..MaxTasks : GatherTaskDone(i)
    \/ GatherReturn

SpecGather == InitGather /\ [][NextGather]_vars

\* The event loop runs every ready callback, and the tasks are finite.
FairSpecGather ==
    /\ SpecGather
    /\ WF_vars(GatherCall)
    /\ \A i \in 1..MaxTasks : WF_vars(GatherTaskDone(i))
    /\ WF_vars(GatherReturn)

----------------------------------------------------------------------------
(* adt/traverse.py, async variants: traverse_*_async, traverse_*_parallel, *)
(* exercised by tests/test_traverse.py and defined by sections 4.5 and 5   *)
(* of the specification.                                                   *)
(* tasks[i] is what the producer f(xs[i]) resolves to.                     *)

ParallelKinds   == {"traverse_option_parallel", "traverse_result_parallel"}
SequentialKinds == {"traverse_option_async", "traverse_result_async"}
OptionKinds     == {"traverse_option_parallel", "traverse_option_async"}

\* Parallel: every element computation is launched up front.
ParallelLaunch(ts) == [i \in 1..Len(ts) |-> "running"]

\* Parallel: the traversal resumes when all computations have completed.
ParallelAllDone(st) == \A i \in 1..Len(st) : st[i] = "done"

\* A fold over the results in the order the computations completed.
traverse_parallel_fold_completion_order(k, ts, ord) ==
    IF k \in OptionKinds
    THEN sequence_option([n \in 1..Len(ord) |-> ts[ord[n]]])
    ELSE sequence_result([n \in 1..Len(ord) |-> ts[ord[n]]])

\* Parallel: the results are folded in original index order with the
\* fail-fast precedence of sequence_option / sequence_result.
traverse_parallel_fold(k, ts, ord) ==
    IF k \in OptionKinds
    THEN sequence_option([i \in 1..Len(ts) |-> ts[i]])
    ELSE sequence_result([i \in 1..Len(ts) |-> ts[i]])

ParallelCall ==
    /\ kind \in ParallelKinds
    /\ hpc = "init"
    /\ tstate' = ParallelLaunch(tasks)
    /\ hpc' = "awaiting"
    /\ UNCHANGED <<call, memo, heap, kind, tasks, order, idx, out, ret>>

\* A running element computation resolves.
ProducerDone(i) ==
    /\ kind \in ParallelKinds \cup SequentialKinds
    /\ i \in 1..Len(tasks)
    /\ tstate[i] = "running"
    /\ tstate' = [tstate EXCEPT ![i] = "done"]
    /\ order' = Append(order, i)
    /\ UNCHANGED <<call, memo, heap, kind, tasks, hpc, idx, out, ret>>

ParallelReturn ==
    /\ kind \in ParallelKinds
    /\ hpc = "awaiting"
    /\ ParallelAllDone(tstate)
    /\ ret' = traverse_parallel_fold(kind, tasks, order)
    /\ hpc' = "done"
    /\ UNCHANGED <<call, memo, heap, kind, tasks, tstate, order, idx, out>>

IsFailure(r) == r.tag \in {"NONE", "Err"}
Failure(k, r) == IF k \in OptionKinds THEN NONE ELSE Err(r.error)
Success(k, o) == IF k \in OptionKinds THEN Some(o) ELSE Ok(o)

\* A loop that records the failure but goes on to the next element.
traverse_async_step_no_short_circuit(k, ts, i, o) ==
    LET o2 == IF i >= 1 /\ ~IsFailure(ts[i]) THEN Append(o, ts[i].value) ELSE o
        r  == IF i >= 1 /\ IsFailure(ts[i]) THEN Failure(k, ts[i]) ELSE Success(k, o2)
    IN  IF i = Len(ts)
        THEN [out |-> o2, ret |-> r, next |-> 0]
        ELSE [out |-> o2, ret |-> Pending, next |-> i + 1]

\* Sequential: what the loop does once producer i has resolved (i = 0 on
\* entry): return the failure, or collect the value and either return the
\* collected values or go on to start producer `next`.
traverse_async_step(k, ts, i, o) ==
    IF i >= 1 /\ IsFailure(ts[i])
    THEN [out |-> o, ret |-> Failure(k, ts[i]), next |-> 0]
    ELSE LET o2 == IF i >= 1 THEN Append(o, ts[i].value) ELSE o IN
         IF i = Len(ts)
         THEN [out |-> o2, ret |-> Success(k, o2), next |-> 0]
         ELSE [out |-> o2, ret |-> Pending, next |-> i + 1]

\* The loop runs from where it is to its next await, or to its return.
SequentialRun(step) ==
    /\ out' = step.out
    /\ ret' = step.ret
    /\ IF step.next = 0
       THEN /\ hpc' = "done"
            /\ UNCHANGED <<tstate, idx>>
       ELSE /\ hpc' = "awaiting"
            /\ idx' = step.next
            /\ tstate' = [tstate EXCEPT ![step.next] = "running"]
    /\ UNCHANGED <<call, memo, heap, kind, tasks, order>>

SequentialCall ==
    /\ kind \in SequentialKinds
    /\ hpc = "init"
    /\ SequentialRun(traverse_async_step(kind, tasks, 0, out))

SequentialResume ==
    /\ kind \in SequentialKinds
    /\ hpc = "awaiting"
    /\ tstate[idx] = "done"
    /\ SequentialRun(traverse_async_step(kind, tasks, idx, out))

InitAsyncTraverse ==
    /\ call = NoCall
    /\ memo = NoMemo
    /\ heap = <<>>
    /\ kind \in ParallelKinds \cup SequentialKinds
    /\ IF kind \in OptionKinds
       THEN tasks \in SeqsUpTo(OptionVals, MaxTasks)
       ELSE tasks \in SeqsUpTo(ResultVals, MaxTasks)
    /\ tstate = [i \in 1..Len(tasks) |-> "created"]
    /\ order = <<>>
    /\ hpc = "init"
    /\ idx = 0
    /\ out = <<>>
    /\ ret = Pending

NextAsyncTraverse ==
    \/ ParallelCall
    \/ \E i \in 1..MaxTasks : ProducerDone(i)
    \/ ParallelReturn
    \/ SequentialCall
    \/ SequentialResume

SpecAsyncTraverse == InitAsyncTraverse /\ [][NextAsyncTraverse]_vars

----------------------------------------------------------------------------
(* adt/result.py and adt/option.py: map / bind.  Each application returns  *)
(* its value and whether it invoked its function argument.                 *)

\* A bind that calls f on whatever the receiver holds, Err included.
Result_bind_always(m, f) ==
    IF m.tag = "Ok"
    THEN [ret |-> f[m.value], called |-> TRUE]
    ELSE [ret |-> f[m.error], called |-> TRUE]

Result_map(m, f) ==
    IF m.tag = "Ok"
    THEN [ret |-> Ok(f[m.value]), called |-> TRUE]
    ELSE [ret |-> m, called |-> FALSE]

Result_bind(m, f) ==
    IF m.tag = "Ok"
    THEN [ret |-> f[m.value], called |-> TRUE]
    ELSE [ret |-> m, called |-> FALSE]

\* option.py, from_nullable: None becomes NONE, anything else Some.
from_nullable(x) == IF x = None THEN NONE ELSE Some(x)

\* A map that wraps f's value with from_nullable, so that a null result
\* becomes Absent.
Option_map_nullable(m, f) ==
    IF m.tag = "Some"
    THEN [ret |-> from_nullable(f[m.value]), called |-> TRUE]
    ELSE [ret |-> NONE, called |-> FALSE]

Option_map(m, f) ==
    IF m.tag = "Some"
    THEN [ret |-> Some(f[m.value]), called |-> TRUE]
    ELSE [ret |-> NONE, called |-> FALSE]

\* A bind that falls back to the receiver when f yields Absent.
Option_bind_fallback(m, f) ==
    IF m.tag = "Some"
    THEN [ret |-> IF f[m.value].tag = "Some" THEN f[m.value] ELSE m, called |-> TRUE]
    ELSE [ret |-> NONE, called |-> FALSE]

Option_bind(m, f) ==
    IF m.tag = "Some"
    THEN [ret |-> f[m.value], called |-> TRUE]
    ELSE [ret |-> NONE, called |-> FALSE]

\* m.bind(fs[1]).bind(fs[2])...: the binds run left to right; `calls` lists
\* the steps whose function was invoked.
RECURSIVE Result_bind_chain(_, _, _, _)
Result_bind_chain(m, fs, i, calls) ==
    IF i > Len(fs)
    THEN [ret |-> m, calls |-> calls]
    ELSE LET b == Result_bind(m, fs[i]) IN
         Result_bind_chain(b.ret, fs, i + 1, IF b.called THEN Append(calls, i) ELSE calls)

RECURSIVE Option_bind_chain(_, _, _, _)
Option_bind_chain(m, fs, i, calls) ==
    IF i > Len(fs)
    THEN [ret |-> m, calls |-> calls]
    ELSE LET b == Option_bind(m, fs[i]) IN
         Option_bind_chain(b.ret, fs, i + 1, IF b.called THEN Append(calls, i) ELSE calls)

ChainResults == {Ok(v) : v \in Values} \cup {Err(e) : e \in Values}
ChainOptions == {NONE} \cup {Some(v) : v \in Values}

CallResultBindChain ==
    /\ call = NoCall
    /\ \E m \in ChainResults, fs \in SeqsUpTo([Values -> ChainResults], MaxChain) :
            /\ call' = [op |-> "result_bind_chain", m |-> m, fs |-> fs,
                        ret |-> Result_bind_chain(m, fs, 1, <<>>).ret,
                        calls |-> Result_bind_chain(m, fs, 1, <<>>).calls]
            /\ UNCHANGED <<asyncVars, memo, heap>>

CallOptionBindChain ==
    /\ call = NoCall
    /\ \E m \in ChainOptions, fs \in SeqsUpTo([Values -> ChainOptions], MaxChain) :
            /\ call' = [op |-> "option_bind_chain", m |-> m, fs |-> fs,
                        ret |-> Option_bind_chain(m, fs, 1, <<>>).ret,
                        calls |-> Option_bind_chain(m, fs, 1, <<>>).calls]
            /\ UNCHANGED <<asyncVars, memo, heap>>

CallResultMap ==
    /\ call = NoCall
    /\ \E m \in ChainResults, f \in [Values -> Values] :
            /\ call' = [op |-> "result_map", m |-> m, f |-> f,
                        ret |-> Result_map(m, f).ret,
                        called |-> Result_map(m, f).called]
            /\ UNCHANGED <<asyncVars, memo, heap>>

CallOptionMap ==
    /\ call = NoCall
    /\ \E m \in ChainOptions, f \in [Values -> Values] :
            /\ call' = [op |-> "option_map", m |-> m, f |-> f,
                        ret |-> Option_map(m, f).ret,
                        called |-> Option_map(m, f).called]
            /\ UNCHANGED <<asyncVars, memo, heap>>

NextBind ==
    \/ CallResultBindChain
    \/ CallOptionBindChain
    \/ CallResultMap
    \/ CallOptionMap

SpecBind == InitSync /\ [][NextBind]_vars

----------------------------------------------------------------------------
(* adt/state.py: State[S, A], exercised by tests/test_state.py and defined *)
(* by section 4.4 of the specification.  A State wraps a transition        *)
(* t : S -> (A, S); `log` lists the states t was invoked on during a run.  *)

StateSpace  == {0, 1}
StateValues == {"a", "b"}
Transitions == [StateSpace -> StateValues \X StateSpace]

\* State(t).run(s): the transition is applied to s.  `who` names the State
\* whose transition it is: "self", the receiver of map / bind, or "next",
\* the State that bind's function returned.
State_invoke(who, t, s, log) ==
    [a |-> t[s][1], s |-> t[s][2], log |-> Append(log, <<who, s>>)]

\* A map whose run evaluates the wrapped transition once for the value and
\* once more for the state.
State_map_run_twice(t, f, s) ==
    LET r1 == State_invoke("self", t, s, <<>>)
        r2 == State_invoke("self", t, s, r1.log)
    IN  [a |-> f[r1.a], s |-> r2.s, log |-> r2.log]

\* state.map(f).run(s): run the transition, apply f to the value.
State_map_run(t, f, s) ==
    LET r == State_invoke("self", t, s, <<>>) IN
    [a |-> f[r.a], s |-> r.s, log |-> r.log]

\* state.bind(f).run(s): run the transition, then run f(value) on the new
\* state.
State_bind_run(t, f, s) ==
    LET r == State_invoke("self", t, s, <<>>) IN
    State_invoke("next", f[r.a], r.s, r.log)

CallStateMapRun ==
    /\ call = NoCall
    /\ \E t \in Transitions, f \in [StateValues -> StateValues], s \in StateSpace :
            /\ call' = [op |-> "state_map_run", t |-> t, f |-> f, s |-> s,
                        ret |-> State_map_run(t, f, s)]
            /\ UNCHANGED <<asyncVars, memo, heap>>

CallStateBindRun ==
    /\ call = NoCall
    /\ \E t \in Transitions, f \in [StateValues -> Transitions], s \in StateSpace :
            /\ call' = [op |-> "state_bind_run", t |-> t, f |-> f, s |-> s,
                        ret |-> State_bind_run(t, f, s)]
            /\ UNCHANGED <<asyncVars, memo, heap>>

NextState ==
    \/ CallStateMapRun
    \/ CallStateBindRun

SpecState == InitSync /\ [][NextState]_vars

----------------------------------------------------------------------------
(* SpecCombinators: one application per behaviour of the Option / Result   *)
(* methods and of the function combinators of core/func.py.                *)

\* core/func.py, compose: x -> f(g(x)).
compose(f, g) == [x \in DOMAIN g |-> f[g[x]]]

\* The constructor Ok used as a function (the monad's pure).
OkFn == [v \in Payloads |-> Ok(v)]

\* m.bind(f).bind(g) and m.bind(x -> f(x).bind(g)).
CallOptionBindAssoc ==
    /\ call = NoCall
    /\ \E m \in OptionVals, f \in [Payloads -> OptionVals], g \in [Payloads -> OptionVals] :
            /\ call' = [op |-> "option_bind_assoc", m |-> m, f |-> f, g |-> g,
                        lhs |-> Option_bind(Option_bind(m, f).ret, g).ret,
                        rhs |-> Option_bind(m, [x \in Payloads |->
                                                  Option_bind(f[x], g).ret]).ret]
            /\ UNCHANGED <<asyncVars, memo, heap>>

\* m.bind(Ok).
CallResultBindOk ==
    /\ call = NoCall
    /\ \E m \in ResultVals :
            /\ call' = [op |-> "result_bind_ok", m |-> m,
                        ret |-> Result_bind(m, OkFn).ret]
            /\ UNCHANGED <<asyncVars, memo, heap>>

\* x.map(identity), x.map(f).map(g) and x.map(compose(g, f)).
CallOptionMapLaws ==
    /\ call = NoCall
    /\ \E x \in OptionVals, f \in [Payloads -> Payloads], g \in [Payloads -> Payloads] :
            /\ call' = [op |-> "option_map_laws", x |-> x, f |-> f, g |-> g,
                        id |-> Option_map(x, identity(Payloads)).ret,
                        two |-> Option_map(Option_map(x, f).ret, g).ret,
                        fused |-> Option_map(x, compose(g, f)).ret]
            /\ UNCHANGED <<asyncVars, memo, heap>>

----------------------------------------------------------------------------
(* adt/option.py: or_else / to_result.  Both take a plain value or a       *)
(* callable and tell them apart with callable(); `invoked` counts the      *)
(* calls made to the argument.                                             *)

\* An argument of or_else: an Option, or a zero-argument callable whose call
\* returns the Option `val`.
AltArgs == {[callable |-> c, val |-> o] : c \in BOOLEAN, o \in OptionVals}

\* An or_else that evaluates a callable alternative before looking at self.
Option_or_else_eager(self, alt) ==
    LET a == [ret |-> alt.val, invoked |-> IF alt.callable THEN 1 ELSE 0] IN
    IF self.tag = "Some" THEN [ret |-> self, invoked |-> a.invoked] ELSE a

Option_or_else(self, alt) ==
    IF self.tag = "Some"
    THEN [ret |-> self, invoked |-> 0]
    ELSE IF alt.callable
         THEN [ret |-> alt.val, invoked |-> 1]
         ELSE [ret |-> alt.val, invoked |-> 0]

\* Arguments of to_result: error values that are not callable, and objects
\* that are: a producer function and an exception class.  Calling "mk_a"
\* returns "a"; calling the class returns an instance of it.
CallableErrs == {"mk_a", "KeyError"}
ErrArgs      == Errors \cup CallableErrs
callable(e)  == e \in CallableErrs
CallOf(e)    == IF e = "mk_a" THEN "a" ELSE "KeyError()"

\* A to_result that evaluates a callable err before looking at self.
Option_to_result_eager(self, err) ==
    LET e == IF callable(err) THEN CallOf(err) ELSE err
        n == IF callable(err) THEN 1 ELSE 0
    IN  IF self.tag = "Some"
        THEN [ret |-> Ok(self.value), invoked |-> n]
        ELSE [ret |-> Err(e), invoked |-> n]

Option_to_result(self, err) ==
    IF self.tag = "Some"
    THEN [ret |-> Ok(self.value), invoked |-> 0]
    ELSE IF callable(err)
         THEN [ret |-> Err(CallOf(err)), invoked |-> 1]
         ELSE [ret |-> Err(err), invoked |-> 0]

CallOrElse ==
    /\ call = NoCall
    /\ \E self \in OptionVals, alt \in AltArgs :
            /\ call' = [op |-> "or_else", self |-> self, alt |-> alt,
                        ret |-> Option_or_else(self, alt).ret,
                        invoked |-> Option_or_else(self, alt).invoked]
            /\ UNCHANGED <<asyncVars, memo, heap>>

\* `passed` is how the caller means the argument: as the error value itself,
\* or as a producer of it (which has to be callable).
CallToResult ==
    /\ call = NoCall
    /\ \E self \in OptionVals, err \in ErrArgs, passed \in {"value", "producer"} :
            /\ passed = "producer" => callable(err)
            /\ call' = [op |-> "to_result", self |-> self, err |-> err, passed |-> passed,
                        ret |-> Option_to_result(self, err).ret,
                        invoked |-> Option_to_result(self, err).invoked]
            /\ UNCHANGED <<asyncVars, memo, heap>>

----------------------------------------------------------------------------
(* core/func.py: try_catch.  A call of fn returns a value or raises; what  *)
(* is raised is an Exception or a BaseException outside Exception.         *)

Return(v) == [tag |-> "return", value |-> v]
Raise(e)  == [tag |-> "raise", error |-> e]

Exceptions     == {"ValueError", "KeyError"}
BaseExceptions == {"KeyboardInterrupt", "SystemExit", "CancelledError"}
FnOutcomes     == {Return(v) : v \in Values} \cup {Raise(e) : e \in Exceptions \cup BaseExceptions}

\* A wrapper whose except clause names BaseException.
try_catch_everything(fn, x) ==
    IF fn[x].tag = "return" THEN Return(Ok(fn[x].value)) ELSE Return(Err(fn[x].error))

\* try_catch(fn)(x): Ok of what fn returns, Err of an Exception it raises;
\* anything else raised passes through the wrapper.
try_catch(fn, x) ==
    IF fn[x].tag = "return"
    THEN Return(Ok(fn[x].value))
    ELSE IF fn[x].error \in Exceptions
         THEN Return(Err(fn[x].error))
         ELSE Raise(fn[x].error)

CallTryCatch ==
    /\ call = NoCall
    /\ \E fn \in [Elems -> FnOutcomes], x \in Elems :
            /\ call' = [op |-> "try_catch", fn |-> fn, x |-> x, out |-> try_catch(fn, x)]
            /\ UNCHANGED <<asyncVars, memo, heap>>

----------------------------------------------------------------------------
(* adt/either.py: Left / Right and swap.                                   *)

Left(v)  == [tag |-> "Left", value |-> v]
Right(v) == [tag |-> "Right", value |-> v]
EitherVals == {Left(v) : v \in Payloads} \cup {Right(v) : v \in Payloads}

\* A swap whose two branches build the same variant.
Either_swap_one_way(e) == Right(e.value)

Either_swap(e) == IF e.tag = "Left" THEN Right(e.value) ELSE Left(e.value)

CallEitherSwap ==
    /\ call = NoCall
    /\ \E e \in EitherVals :
            /\ call' = [op |-> "either_swap", e |-> e,
                        once |-> Either_swap(e),
                        twice |-> Either_swap(Either_swap(e))]
            /\ UNCHANGED <<asyncVars, memo, heap>>

NextCombinators ==
    \/ CallOptionBindAssoc
    \/ CallResultBindOk
    \/ CallOptionMapLaws
    \/ CallOrElse
    \/ CallToResult
    \/ CallTryCatch
    \/ CallEitherSwap

SpecCombinators == InitSync /\ [][NextCombinators]_vars

----------------------------------------------------------------------------
(* adt/writer.py: Writer[W, A], exercised by tests/test_writer.py and      *)
(* defined by section 4.4 of the specification.  A Writer is a value with  *)
(* a log; the logs here are those of monoid_list (lists, concatenation).   *)

WriterValues == {"a", "b"}
LogEntries   == {"p", "q"}

\* monoid_list: identity [] and combine = list concatenation.
monoid_list_identity == <<>>
monoid_list_combine(x, y) == x \o y

Writer(v, l) == [value |-> v, log |-> l]

\* What a bind step may return, and the Writers a chain may start from.
WriterSteps  == {Writer(v, <<e>>) : v \in WriterValues, e \in LogEntries}
WriterStarts == {Writer(v, l) : v \in WriterValues, l \in {monoid_list_identity, <<"p">>}}

\* A bind that puts the next log in front of the receiver's.
Writer_bind_reversed(w, f) ==
    LET next == f[w.value] IN
    Writer(next.value, monoid_list_combine(next.log, w.log))

\* w.bind(f): run f on the value, combine self's log with the next log.
Writer_bind(w, f) ==
    LET next == f[w.value] IN
    Writer(next.value, monoid_list_combine(w.log, next.log))

\* w.run(): the pair (value, log).
Writer_run(w) == <<w.value, w.log>>

\* w.bind(fs[1]).bind(fs[2])...
RECURSIVE Writer_bind_chain(_, _, _)
Writer_bind_chain(w, fs, i) ==
    IF i > Len(fs) THEN w ELSE Writer_bind_chain(Writer_bind(w, fs[i]), fs, i + 1)

CallWriterBindChain ==
    /\ call = NoCall
    /\ \E w \in WriterStarts, fs \in SeqsUpTo([WriterValues -> WriterSteps], MaxChain) :
            /\ call' = [op |-> "writer_bind_chain", w |-> w, fs |-> fs,
                        ret |-> Writer_run(Writer_bind_chain(w, fs, 1))]
            /\ UNCHANGED <<asyncVars, memo, heap>>

NextWriter == CallWriterBindChain

SpecWriter == InitSync /\ [][NextWriter]_vars

----------------------------------------------------------------------------
(* core/func.py: thunk / once.  The closure variables of a wrapper are the *)
(* record `memo`; `invs` logs the invocations of the wrapped function and  *)
(* `calls` the calls of the wrapper, each with its arguments and outcome.  *)
(* The wrapped function may be impure: the outcome of an invocation is     *)
(* chosen when it happens.                                                 *)

\* Positional arguments of one call.
ArgLists == {<<>>, <<"x">>, <<"y">>}

\* thunk(f): evaluated = False, value = None.
MakeThunk ==
    /\ call = NoCall
    /\ memo = NoMemo
    /\ memo' = [fn |-> "thunk", evaluated |-> FALSE, value |-> None,
                invs |-> <<>>, calls |-> <<>>]
    /\ UNCHANGED <<call, asyncVars, heap>>

\* A wrapper that marks itself evaluated before it invokes f.
thunk_wrapper_marks_first(m, args, o) ==
    IF args # <<>>
    THEN [m EXCEPT !.calls = Append(@, [args |-> args, out |-> Raise("TypeError")])]
    ELSE IF ~m.evaluated
         THEN IF o.tag = "return"
              THEN [m EXCEPT !.value = o.value,
                             !.evaluated = TRUE,
                             !.invs = Append(@, [args |-> <<>>, out |-> o]),
                             !.calls = Append(@, [args |-> args, out |-> Return(o.value)])]
              ELSE [m EXCEPT !.evaluated = TRUE,
                             !.invs = Append(@, [args |-> <<>>, out |-> o]),
                             !.calls = Append(@, [args |-> args, out |-> o])]
         ELSE [m EXCEPT !.calls = Append(@, [args |-> args, out |-> Return(m.value)])]

\* wrapper() takes no parameters: a call that passes arguments raises
\* TypeError before the body runs.  Otherwise f is invoked if not yet
\* evaluated (outcome o); when f raises, neither assignment is reached.
thunk_wrapper(m, args, o) ==
    IF args # <<>>
    THEN [m EXCEPT !.calls = Append(@, [args |-> args, out |-> Raise("TypeError")])]
    ELSE IF ~m.evaluated
         THEN IF o.tag = "return"
              THEN [m EXCEPT !.value = o.value,
                             !.evaluated = TRUE,
                             !.invs = Append(@, [args |-> <<>>, out |-> o]),
                             !.calls = Append(@, [args |-> args, out |-> Return(o.value)])]
              ELSE [m EXCEPT !.invs = Append(@, [args |-> <<>>, out |-> o]),
                             !.calls = Append(@, [args |-> args, out |-> o])]
         ELSE [m EXCEPT !.calls = Append(@, [args |-> args, out |-> Return(m.value)])]

CallThunk ==
    /\ memo.fn = "thunk"
    /\ Len(memo.calls) < MaxCalls
    /\ \E args \in ArgLists, o \in FnOutcomes :
            memo' = thunk_wrapper(memo, args, o)
    /\ UNCHANGED <<call, asyncVars, heap>>

\* once(fn): called = False, result = None.
MakeOnce ==
    /\ call = NoCall
    /\ memo = NoMemo
    /\ memo' = [fn |-> "once", called |-> FALSE, result |-> None,
                invs |-> <<>>, calls |-> <<>>]
    /\ UNCHANGED <<call, asyncVars, heap>>

\* wrapper(*args): fn(*args) is invoked if not yet called (outcome o); when
\* fn raises, neither assignment is reached.
once_wrapper(m, args, o) ==
    IF ~m.called
    THEN IF o.tag = "return"
         THEN [m EXCEPT !.result = o.value,
                        !.called = TRUE,
                        !.invs = Append(@, [args |-> args, out |-> o]),
                        !.calls = Append(@, [args |-> args, out |-> Return(o.value)])]
         ELSE [m EXCEPT !.invs = Append(@, [args |-> args, out |-> o]),
                        !.calls = Append(@, [args |-> args, out |-> o])]
    ELSE [m EXCEPT !.calls = Append(@, [args |-> args, out |-> Return(m.result)])]

CallOnce ==
    /\ memo.fn = "once"
    /\ Len(memo.calls) < MaxCalls
    /\ \E args \in ArgLists, o \in FnOutcomes :
            memo' = once_wrapper(memo, args, o)
    /\ UNCHANGED <<call, asyncVars, heap>>

NextMemo ==
    \/ MakeThunk
    \/ CallThunk
    \/ MakeOnce
    \/ CallOnce

SpecMemo == InitSync /\ [][NextMemo]_vars

----------------------------------------------------------------------------
(* core/func.py: curry.  A call of curried either invokes fn or           *)
(* returns a lambda that closes over args and kwargs; each lambda is an    *)
(* object of `heap`.  fn is a function of `needed` positional parameters   *)
(* (its co_argcount) that also takes the keyword-only parameters KwNames.  *)

Unset    == "unset"
KwNames  == {"key"}
KwValues == {"v"}
KwArgs   == [KwNames -> KwValues \cup {Unset}]
NoKwargs == [n \in KwNames |-> Unset]

\* len(kwargs)
len_kwargs(k) == Cardinality({n \in KwNames : k[n] # Unset})

\* {**kwargs, **k}
merge_kwargs(kwargs, k) == [n \in KwNames |-> IF k[n] # Unset THEN k[n] ELSE kwargs[n]]

\* fn(*args, **kwargs): the call binds exactly `needed` positional arguments,
\* or Python raises TypeError without running fn's body.
fn_apply(needed, args, kwargs) ==
    IF Len(args) = needed
    THEN Return([args |-> args, kwargs |-> kwargs])
    ELSE Raise("TypeError")

\* A curried that asks for more than `needed` arguments before it invokes fn.
curried_strict(needed, args, kwargs) ==
    IF Len(args) + len_kwargs(kwargs) > needed
    THEN [tag |-> "invoke", args |-> args, kwargs |-> kwargs,
          out |-> fn_apply(needed, args, kwargs)]
    ELSE [tag |-> "closure", args |-> args, kwargs |-> kwargs]

curried(needed, args, kwargs) ==
    IF Len(args) + len_kwargs(kwargs) >= needed
    THEN [tag |-> "invoke", args |-> args, kwargs |-> kwargs,
          out |-> fn_apply(needed, args, kwargs)]
    ELSE [tag |-> "closure", args |-> args, kwargs |-> kwargs]

\* curry(fn)(*groups[1])(*groups[2])...: the result of each call in turn and
\* the invocations of fn; the chain ends when a call returns fn's result.
RECURSIVE curry_chain(_, _, _, _, _, _)
curry_chain(needed, args, groups, i, rets, invs) ==
    IF i > Len(groups)
    THEN [rets |-> rets, invs |-> invs]
    ELSE LET r == curried(needed, args \o groups[i], NoKwargs) IN
         IF r.tag = "invoke"
         THEN [rets |-> Append(rets, r), invs |-> Append(invs, r.args)]
         ELSE curry_chain(needed, r.args, groups, i + 1, Append(rets, r), invs)

\* The splits of an argument list into consecutive non-empty groups.
RECURSIVE Splits(_)
Splits(argv) ==
    IF argv = <<>>
    THEN {<<>>}
    ELSE UNION {{<<SubSeq(argv, 1, k)>> \o rest :
                    rest \in Splits(SubSeq(argv, k + 1, Len(argv)))} :
                k \in 1..Len(argv)}

CallCurryChain ==
    /\ call = NoCall
    /\ heap = <<>>
    /\ \E n \in 1..MaxArity :
         \E argv \in [1..n -> Elems] :
           \E groups \in Splits(argv) :
              call' = [op |-> "curry_chain", needed |-> n, groups |-> groups,
                       rets |-> curry_chain(n, <<>>, groups, 1, <<>>, <<>>).rets,
                       invs |-> curry_chain(n, <<>>, groups, 1, <<>>, <<>>).invs]
    /\ UNCHANGED <<asyncVars, memo, heap>>

\* Arguments of one call of a curried callable.
CurryGroups == {<<>>, <<"x">>, <<"y">>, <<"x", "y">>}

\* A lambda that extends the argument list it closes over instead of
\* building a new one.
lambda_call_in_place(h, needed, p, a, k) ==
    LET r == curried(needed, h[p].args \o a, merge_kwargs(h[p].kwargs, k))
        g == [h EXCEPT ![p].args = @ \o a]
    IN  IF r.tag = "closure"
        THEN [heap |-> Append(g, [tag |-> "curried", args |-> r.args, kwargs |-> r.kwargs]),
              ret |-> [tag |-> "closure", addr |-> Len(h) + 1]]
        ELSE [heap |-> g, ret |-> r]

\* Calling the callable at heap[p] with (*a, **k): curried(*(args + a),
\* **{**kwargs, **k}); a returned lambda is a new object.
lambda_call(h, needed, p, a, k) ==
    LET r == curried(needed, h[p].args \o a, merge_kwargs(h[p].kwargs, k)) IN
    IF r.tag = "closure"
    THEN [heap |-> Append(h, [tag |-> "curried", args |-> r.args, kwargs |-> r.kwargs]),
          ret |-> [tag |-> "closure", addr |-> Len(h) + 1]]
    ELSE [heap |-> h, ret |-> r]

\* curry(fn): heap[1] is `curried`, which holds no arguments yet.
CurryMake ==
    /\ call = NoCall
    /\ heap = <<>>
    /\ \E n \in 1..MaxArity :
            call' = [op |-> "curry", needed |-> n, hist |-> <<>>]
    /\ heap' = <<[tag |-> "curried", args |-> <<>>, kwargs |-> NoKwargs]>>
    /\ UNCHANGED <<asyncVars, memo>>

\* Any callable made so far is called again, in any order.
CurryApply ==
    /\ call.op = "curry"
    /\ Len(call.hist) < MaxCalls
    /\ \E p \in DOMAIN heap, a \in CurryGroups, k \in KwArgs :
         LET r == lambda_call(heap, call.needed, p, a, k) IN
            /\ heap' = r.heap
            /\ call' = [call EXCEPT !.hist =
                           Append(@, [on |-> p, a |-> a, k |-> k, ret |-> r.ret])]
    /\ UNCHANGED <<asyncVars, memo>>

NextCurry ==
    \/ CallCurryChain
    \/ CurryMake
    \/ CurryApply

SpecCurry == InitSync /\ [][NextCurry]_vars

----------------------------------------------------------------------------
(* Objects and references.  In the specifications below `heap` holds the   *)
(* objects of the program and a reference is an index into it; heap[1] is  *)
(* the module-level instance NONE = _None() of adt/option.py, which        *)
(* core/func.py imports under the name NOTHING.                            *)

NoneAddr == 1

List(items) == [tag |-> "list", items |-> items]

\* Allocation: the heap with one more object, and the new object's address.
Alloc(h, o) == [heap |-> Append(h, o), ret |-> Len(h) + 1]

----------------------------------------------------------------------------
(* core/func.py: reduce.  `calls` lists the argument pairs f was invoked   *)
(* on, in order.                                                           *)

BinaryFns == [Elems \X Elems -> Elems]

\* for x in it: acc = f(acc, x)
RECURSIVE reduce_loop(_, _, _, _, _)
reduce_loop(f, xs, i, acc, calls) ==
    IF i > Len(xs)
    THEN [acc |-> acc, calls |-> calls]
    ELSE reduce_loop(f, xs, i + 1, f[<<acc, xs[i]>>], Append(calls, <<acc, xs[i]>>))

\* A reduce whose loop starts again at the first element.
reduce_from_first(h, l, f) ==
    LET xs == h[l].items IN
    IF xs = <<>>
    THEN [heap |-> h, ret |-> NoneAddr, calls |-> <<>>]
    ELSE LET r == reduce_loop(f, xs, 1, xs[1], <<>>) IN
         [heap |-> Append(h, Some(r.acc)), ret |-> Len(h) + 1, calls |-> r.calls]

\* reduce(f, xs) for the list at heap[l]: next(it) takes the first element,
\* StopIteration returns the shared instance; otherwise a new Some.
reduce(h, l, f) ==
    LET xs == h[l].items IN
    IF xs = <<>>
    THEN [heap |-> h, ret |-> NoneAddr, calls |-> <<>>]
    ELSE LET r == reduce_loop(f, xs, 2, xs[1], <<>>) IN
         [heap |-> Append(h, Some(r.acc)), ret |-> Len(h) + 1, calls |-> r.calls]

InitReduce ==
    /\ call = NoCall
    /\ AsyncIdle
    /\ memo = NoMemo
    /\ \E xs \in SeqsUpTo(Elems, MaxLen) : heap = <<NONE, List(xs)>>

CallReduce ==
    /\ call = NoCall
    /\ \E f \in BinaryFns :
         LET r == reduce(heap, 2, f) IN
            /\ heap' = r.heap
            /\ call' = [op |-> "reduce", f |-> f, xs |-> 2, ret |-> r.ret, calls |-> r.calls]
    /\ UNCHANGED <<asyncVars, memo>>

NextReduce == CallReduce

SpecReduce == InitReduce /\ [][NextReduce]_vars

----------------------------------------------------------------------------
(* The ADT combinators over references (SpecHeap).  Each operator is the   *)
(* method applied to the object at heap[p]; it returns the heap after the  *)
(* call and the address of the object returned: an existing object (self,  *)
(* an argument, the shared NONE) or one the call constructs.               *)

HeapPayloads == {None, "a"}
HeapFns      == {[v \in HeapPayloads |-> "a"], [v \in HeapPayloads |-> None]}

Same(h, p) == [heap |-> h, ret |-> p]

\* Some(vs) / Ok(vs) for the list vs built by sequence_* / traverse_*.
SomeList(vs) == [tag |-> "Some", items |-> vs]
OkList(vs)   == [tag |-> "Ok", items |-> vs]

\* The objects a program has constructed before the calls: the shared NONE,
\* a second _None() instance, one value of each other variant, and the
\* lists handed to sequence_* (of references) and traverse_* (of elements).
BaseHeap ==
    << NONE, NONE, Some(None), Some("a"), Ok("a"), Err("a"), Left("a"), Right("a"),
       List(<<4, 3>>), List(<<4, 2, 3>>), List(<<5, 5>>), List(<<5, 6, 5>>),
       List(<<"x", "y">>) >>

OptionAddrs(h) == {p \in DOMAIN h : h[p].tag = "NONE" \/ (h[p].tag = "Some" /\ "value" \in DOMAIN h[p])}
ResultAddrs(h) == {p \in DOMAIN h : h[p].tag = "Err" \/ (h[p].tag = "Ok" /\ "value" \in DOMAIN h[p])}
EitherAddrs(h) == {p \in DOMAIN h : h[p].tag \in {"Left", "Right"}}
OptionLists    == {9, 10}
ResultLists    == {11, 12}
ElemLists      == {13}
\* The objects a function argument returns: an absent instance or a Some;
\* an Ok or an Err.
OptionReturns  == {2, 4}
ResultReturns  == {5, 6}

\* A map that returns self when self is absent.
Option_map_ref_self(h, p, f) ==
    IF h[p].tag = "Some" THEN Alloc(h, Some(f[h[p].value])) ELSE Same(h, p)

Option_map_ref(h, p, f) ==
    IF h[p].tag = "Some" THEN Alloc(h, Some(f[h[p].value])) ELSE Same(h, NoneAddr)

\* bind: f(self.value) is the object at q.
Option_bind_ref(h, p, q) ==
    IF h[p].tag = "Some" THEN Same(h, q) ELSE Same(h, NoneAddr)

Option_or_else_ref(h, p, q) ==
    IF h[p].tag = "Some" THEN Same(h, p) ELSE Same(h, q)

Option_to_result_ref(h, p, e) ==
    IF h[p].tag = "Some" THEN Alloc(h, Ok(h[p].value)) ELSE Alloc(h, Err(e))

from_nullable_ref(h, x) ==
    IF x = None THEN Same(h, NoneAddr) ELSE Alloc(h, Some(x))

Result_map_ref(h, p, f) ==
    IF h[p].tag = "Ok" THEN Alloc(h, Ok(f[h[p].value])) ELSE Same(h, p)

Result_bind_ref(h, p, q) ==
    IF h[p].tag = "Ok" THEN Same(h, q) ELSE Same(h, p)

Result_map_err_ref(h, p, f) ==
    IF h[p].tag = "Err" THEN Alloc(h, Err(f[h[p].error])) ELSE Same(h, p)

Either_map_left_ref(h, p, f) ==
    IF h[p].tag = "Left" THEN Alloc(h, Left(f[h[p].value])) ELSE Same(h, p)

Either_map_right_ref(h, p, f) ==
    IF h[p].tag = "Right" THEN Alloc(h, Right(f[h[p].value])) ELSE Same(h, p)

Either_bimap_ref(h, p, f, g) ==
    IF h[p].tag = "Left" THEN Alloc(h, Left(f[h[p].value])) ELSE Alloc(h, Right(g[h[p].value]))

\* A swap that rewrites self and returns it.
Either_swap_ref_in_place(h, p) ==
    Same([h EXCEPT ![p] = Either_swap(h[p])], p)

Either_swap_ref(h, p) == Alloc(h, Either_swap(h[p]))

\* The objects a list of references points to.
Deref(h, l) == [i \in 1..Len(h[l].items) |-> h[h[l].items[i]]]

sequence_option_ref(h, l) ==
    LET r == sequence_option(Deref(h, l)) IN
    IF r.tag = "Some" THEN Alloc(h, SomeList(r.value)) ELSE Same(h, NoneAddr)

sequence_result_ref(h, l) ==
    LET r == sequence_result(Deref(h, l)) IN
    IF r.tag = "Ok" THEN Alloc(h, OkList(r.value)) ELSE Alloc(h, Err(r.error))

\* traverse: f(x) is the object at f[x].
traverse_option_ref(h, l, f) ==
    LET r == traverse_option(h[l].items, [x \in DOMAIN f |-> h[f[x]]]) IN
    IF r.tag = "Some" THEN Alloc(h, SomeList(r.value)) ELSE Same(h, NoneAddr)

traverse_result_ref(h, l, f) ==
    LET r == traverse_result(h[l].items, [x \in DOMAIN f |-> h[f[x]]]) IN
    IF r.tag = "Ok" THEN Alloc(h, OkList(r.value)) ELSE Alloc(h, Err(r.error))

HeapStart == [op |-> "start", n |-> 0]

InitHeap ==
    /\ call = HeapStart
    /\ AsyncIdle
    /\ memo = NoMemo
    /\ heap = BaseHeap

\* One call: its result is recorded and the heap is what the call left.
HeapCall(op, self, arg, r) ==
    /\ heap' = r.heap
    /\ call' = [op |-> op, self |-> self, arg |-> arg, ret |-> r.ret, n |-> call.n + 1]
    /\ UNCHANGED <<asyncVars, memo>>

HeapOptionMap ==
    /\ call.n < MaxOps
    /\ \E p \in OptionAddrs(heap), f \in HeapFns :
            HeapCall("Option.map", p, f, Option_map_ref(heap, p, f))

HeapOptionBind ==
    /\ call.n < MaxOps
    /\ \E p \in OptionAddrs(heap), q \in OptionReturns :
            HeapCall("Option.bind", p, q, Option_bind_ref(heap, p, q))

HeapOptionOrElse ==
    /\ call.n < MaxOps
    /\ \E p \in OptionAddrs(heap), q \in OptionReturns :
            HeapCall("Option.or_else", p, q, Option_or_else_ref(heap, p, q))

HeapOptionToResult ==
    /\ call.n < MaxOps
    /\ \E p \in OptionAddrs(heap), e \in HeapPayloads :
            HeapCall("Option.to_result", p, e, Option_to_result_ref(heap, p, e))

HeapFromNullable ==
    /\ call.n < MaxOps
    /\ \E x \in HeapPayloads :
            HeapCall("from_nullable", 0, x, from_nullable_ref(heap, x))

HeapResultMap ==
    /\ call.n < MaxOps
    /\ \E p \in ResultAddrs(heap), f \in HeapFns :
            HeapCall("Result.map", p, f, Result_map_ref(heap, p, f))

HeapResultBind ==
    /\ call.n < MaxOps
    /\ \E p \in ResultAddrs(heap), q \in ResultReturns :
            HeapCall("Result.bind", p, q, Result_bind_ref(heap, p, q))

HeapResultMapErr ==
    /\ call.n < MaxOps
    /\ \E p \in ResultAddrs(heap), f \in HeapFns :
            HeapCall("Result.map_err", p, f, Result_map_err_ref(heap, p, f))

HeapEitherMapLeft ==
    /\ call.n < MaxOps
    /\ \E p \in EitherAddrs(heap), f \in HeapFns :
            HeapCall("Either.map_left", p, f, Either_map_left_ref(heap, p, f))

HeapEitherMapRight ==
    /\ call.n < MaxOps
    /\ \E p \in EitherAddrs(heap), f \in HeapFns :
            HeapCall("Either.map_right", p, f, Either_map_right_ref(heap, p, f))

HeapEitherBimap ==
    /\ call.n < MaxOps
    /\ \E p \in EitherAddrs(heap), f \in HeapFns, g \in HeapFns :
            HeapCall("Either.bimap", p, <<f, g>>, Either_bimap_ref(heap, p, f, g))

HeapEitherSwap ==
    /\ call.n < MaxOps
    /\ \E p \in EitherAddrs(heap) :
            HeapCall("Either.swap", p, 0, Either_swap_ref(heap, p))

HeapSequenceOption ==
    /\ call.n < MaxOps
    /\ \E l \in OptionLists :
            HeapCall("sequence_option", l, 0, sequence_option_ref(heap, l))

HeapSequenceResult ==
    /\ call.n < MaxOps
    /\ \E l \in ResultLists :
            HeapCall("sequence_result", l, 0, sequence_result_ref(heap, l))

HeapTraverseOption ==
    /\ call.n < MaxOps
    /\ \E l \in ElemLists, f \in [Elems -> OptionReturns] :
            HeapCall("traverse_option", l, f, traverse_option_ref(heap, l, f))

HeapTraverseResult ==
    /\ call.n < MaxOps
    /\ \E l \in ElemLists, f \in [Elems -> ResultReturns] :
            HeapCall("traverse_result", l, f, traverse_result_ref(heap, l, f))

NextHeap ==
    \/ HeapOptionMap
    \/ HeapOptionBind
    \/ HeapOptionOrElse
    \/ HeapOptionToResult
    \/ HeapFromNullable
    \/ HeapResultMap
    \/ HeapResultBind
    \/ HeapResultMapErr
    \/ HeapEitherMapLeft
    \/ HeapEitherMapRight
    \/ HeapEitherBimap
    \/ HeapEitherSwap
    \/ HeapSequenceOption
    \/ HeapSequenceResult
    \/ HeapTraverseOption
    \/ HeapTraverseResult

SpecHeap == InitHeap /\ [][NextHeap]_vars

----------------------------------------------------------------------------
(* Claims about sequence_* / traverse_* (SpecTraverse)                     *)

HasAbsent(xs) == \E i \in 1..Len(xs) : xs[i].tag = "NONE"
ErrIndices(xs) == {i \in 1..Len(xs) : xs[i].tag = "Err"}
Min(S) == CHOOSE m \in S : \A n \in S : m <= n
Unwrapped(xs) == [i \in 1..Len(xs) |-> xs[i].value]

\* C5: sequence_option(xs) is Absent iff some element of xs is Absent;
\* otherwise it is Some of the unwrapped values in original order, of the
\* same length as xs; sequence_option([]) is Some([]).
C5_SequenceOptionFailFast ==
    call.op = "sequence_option" =>
        /\ (call.ret = NONE) <=> HasAbsent(call.xs)
        /\ ~HasAbsent(call.xs) =>
              /\ call.ret = Some(Unwrapped(call.xs))
              /\ Len(call.ret.value) = Len(call.xs)
        /\ call.xs = <<>> => call.ret = Some(<<>>)

C5_Witness ==
    /\ call.op = "sequence_option"
    /\ Len(call.xs) = 3
    /\ call.xs[1] = Some(None)
    /\ call.xs[2] = NONE
    /\ call.xs[3] = Some("a")
    /\ call.ret = NONE

\* C6: on an input holding an Err, sequence_result(xs) and
\* traverse_result(xs, identity) return Err with exactly the payload of the
\* lowest-index Err; with no Err they return Ok of all values in order.
C6_ResultFirstErrPreserved ==
    call.op \in {"sequence_result", "traverse_result_identity"} =>
        IF ErrIndices(call.xs) # {}
        THEN call.ret = Err(call.xs[Min(ErrIndices(call.xs))].error)
        ELSE call.ret = Ok(Unwrapped(call.xs))

C6_Witness ==
    /\ call.op = "traverse_result_identity"
    /\ call.xs = <<Ok("a"), Err(None), Err("b")>>
    /\ call.ret = Err(None)

\* C7: traverse_option(xs, f) returns what sequence_option returns on the
\* sequence [f(x) for x in xs].
C7_TraverseOptionIsMapThenSequence ==
    call.op = "traverse_option" =>
        call.ret = sequence_option([i \in 1..Len(call.xs) |-> call.f[call.xs[i]]])

C7_Witness ==
    /\ call.op = "traverse_option"
    /\ call.xs = <<"x", "y", "x">>
    /\ call.f["x"] = Some("b")
    /\ call.f["y"] = NONE
    /\ call.ret = NONE

----------------------------------------------------------------------------
(* Claims about the fan-in helpers (SpecGather, FairSpecGather)            *)

TaskIs(i, s) == i <= Len(tstate) /\ tstate[i] = s

AllTasksDone == \A i \in 1..Len(tasks) : tstate[i] = "done"

RECURSIVE ErrorsInOrder(_)
ErrorsInOrder(ts) ==
    IF ts = <<>> THEN <<>>
    ELSE IF Head(ts).tag = "Err"
         THEN <<Head(ts).error>> \o ErrorsInOrder(Tail(ts))
         ELSE ErrorsInOrder(Tail(ts))

\* C1: gather_results returns Err(e_i) for the lowest index i whose task
\* resolved to Err, whatever the payloads are, and Ok of every value in task
\* order when no task resolved to Err.
C1_GatherResultsFirstErrElseAll ==
    (kind = "gather_results" /\ hpc = "done") =>
        IF ErrIndices(tasks) # {}
        THEN ret = Err(tasks[Min(ErrIndices(tasks))].error)
        ELSE ret = Ok(Unwrapped(tasks))

\* C3: gather_results and gather_results_accumulate never cancel a task,
\* return only after every task has completed, and every launched task
\* eventually completes, also when a task has already resolved to Err.
C3_GatherRunsAllToCompletion ==
    /\ [](\A i \in 1..Len(tasks) : tstate[i] # "cancelled")
    /\ [](hpc = "done" => AllTasksDone)
    /\ \A i \in 1..MaxTasks :
          TaskIs(i, "running") ~> TaskIs(i, "done")

C3_Witness ==
    /\ kind = "gather_results"
    /\ hpc = "done"
    /\ tasks = <<Err("a"), Ok("a"), Ok(None)>>
    /\ order = <<1, 3, 2>>
    /\ AllTasksDone

\* C4: gather_results_accumulate returns Ok(all values in task order) iff no
\* task resolved to Err; otherwise Err of the errors of the Err tasks, one per
\* Err task in task order, and nothing else.
C4_GatherAccumulateAllErrors ==
    (kind = "gather_results_accumulate" /\ hpc = "done") =>
        /\ (ret.tag = "Ok") <=> (ErrIndices(tasks) = {})
        /\ ErrIndices(tasks) = {} => ret = Ok(Unwrapped(tasks))
        /\ ErrIndices(tasks) # {} =>
              /\ ret = Err(ErrorsInOrder(tasks))
              /\ Len(ret.error) = Cardinality(ErrIndices(tasks))

C4_Witness ==
    /\ kind = "gather_results_accumulate"
    /\ hpc = "done"
    /\ tasks = <<Err("b"), Ok("a"), Err(None)>>
    /\ ret = Err(<<"b", None>>)

----------------------------------------------------------------------------
(* Claims about the async traversals (SpecAsyncTraverse)                   *)

FailureIndices(ts) == {i \in 1..Len(ts) : IsFailure(ts[i])}

FirstFailureElseAll(k, ts) ==
    IF FailureIndices(ts) # {}
    THEN Failure(k, ts[Min(FailureIndices(ts))])
    ELSE Success(k, Unwrapped(ts))

\* C2: the parallel traversals launch every element computation, return
\* only after all of them completed, and return the failure of the
\* lowest-index failing element, else the values in index order, whatever
\* the order in which the computations completed.
C2_ParallelFirstByIndex ==
    kind \in ParallelKinds =>
        /\ hpc = "awaiting" => \A i \in 1..Len(tasks) : tstate[i] # "created"
        /\ hpc = "done" =>
              /\ AllTasksDone
              /\ ret = FirstFailureElseAll(kind, tasks)

C2_Witness ==
    /\ kind = "traverse_result_parallel"
    /\ hpc = "done"
    /\ tasks = <<Ok("a"), Err("a"), Err("b")>>
    /\ order = <<3, 2, 1>>
    /\ ret = Err("a")

\* C8: the sequential async traversals start producer i+1 only after producer
\* i completed, start no producer after one yielded Absent/Err, and return
\* that first failure, else the values in index order.
C8_SequentialOneAtATime ==
    kind \in SequentialKinds =>
        /\ \A i \in 1..Len(tasks) - 1 :
              tstate[i + 1] # "created" => tstate[i] = "done"
        /\ \A i \in 1..Len(tasks) : \A j \in (i + 1)..Len(tasks) :
              (tstate[i] = "done" /\ IsFailure(tasks[i])) => tstate[j] = "created"
        /\ hpc = "done" => ret = FirstFailureElseAll(kind, tasks)

C8_Witness ==
    /\ kind = "traverse_result_async"
    /\ hpc = "done"
    /\ tasks = <<Ok("a"), Err("b"), Ok(None)>>
    /\ tstate = <<"done", "done", "created">>
    /\ ret = Err("b")

----------------------------------------------------------------------------
(* Claims about map / bind (SpecBind)                                      *)

\* The outcome of step k of a chain when every earlier step succeeded.
RECURSIVE OutcomeAfter(_, _, _)
OutcomeAfter(m, fs, k) ==
    IF k = 0 THEN m ELSE fs[k][OutcomeAfter(m, fs, k - 1).value]

\* The steps (0 is the receiver) that produce the chain's first failure.
FirstFailureStep(m, fs) ==
    {k \in 0..Len(fs) :
        /\ \A j \in 0..(k - 1) : ~IsFailure(OutcomeAfter(m, fs, j))
        /\ IsFailure(OutcomeAfter(m, fs, k))}

UpTo(k) == [i \in 1..k |-> i]

\* C10: a chain m.bind(f1)...bind(fn) on Result (Option) returns the first
\* Err (Absent) produced along it, payload unchanged, and invokes no function
\* after the step that produced it; map and bind on an Err / Absent receiver
\* never invoke their function.
C10_BindShortCircuits ==
    /\ call.op \in {"result_bind_chain", "option_bind_chain"} =>
          IF FirstFailureStep(call.m, call.fs) # {}
          THEN LET k == Min(FirstFailureStep(call.m, call.fs)) IN
               /\ call.ret = OutcomeAfter(call.m, call.fs, k)
               /\ call.calls = UpTo(k)
          ELSE /\ call.ret = OutcomeAfter(call.m, call.fs, Len(call.fs))
               /\ call.calls = UpTo(Len(call.fs))
    /\ (call.op \in {"result_map", "option_map"} /\ IsFailure(call.m)) =>
          /\ ~call.called
          /\ call.ret = call.m

C10_Witness ==
    /\ call.op = "result_bind_chain"
    /\ call.m = Ok("a")
    /\ Len(call.fs) = 3
    /\ call.fs[1]["a"] = Ok(None)
    /\ call.fs[2][None] = Err(None)
    /\ call.fs[3] = [v \in Values |-> Err("a")]
    /\ call.ret = Err(None)
    /\ call.calls = <<1, 2>>

----------------------------------------------------------------------------
(* Claims about State (SpecState)                                          *)

SelfRuns(log) == {n \in 1..Len(log) : log[n][1] = "self"}

\* C9: one call of state.map(f).run(s) and one call of state.bind(f).run(s)
\* each invoke the wrapped transition exactly once, on s.
C9_StateSingleExecution ==
    call.op \in {"state_map_run", "state_bind_run"} =>
        /\ Cardinality(SelfRuns(call.ret.log)) = 1
        /\ call.ret.log[1] = <<"self", call.s>>

C9_Witness ==
    /\ call.op = "state_map_run"
    /\ call.s = 1
    /\ call.t[1] = <<"a", 0>>
    /\ call.f["a"] = "b"
    /\ call.ret.a = "b"
    /\ call.ret.s = 0
    /\ call.ret.log = <<<<"self", 1>>>>

----------------------------------------------------------------------------
(* Claims about the monad and functor laws (SpecCombinators)               *)

\* C11: Option bind is associative: m.bind(f).bind(g) equals
\* m.bind(x -> f(x).bind(g)) for every Option m and all f, g returning Option.
C11_OptionBindAssociative ==
    call.op = "option_bind_assoc" => call.lhs = call.rhs

C11_Witness ==
    /\ call.op = "option_bind_assoc"
    /\ call.m = Some("a")
    /\ call.f["a"] = Some(None)
    /\ call.g[None] = Some("b")
    /\ call.lhs = Some("b")
    /\ call.rhs = Some("b")

\* C12: Result bind satisfies right identity: m.bind(Ok) equals m for every
\* Result m, Ok or Err.
C12_ResultBindRightIdentity ==
    call.op = "result_bind_ok" => call.ret = call.m

C12_Witness ==
    /\ call.op = "result_bind_ok"
    /\ call.m = Err("b")
    /\ call.ret = Err("b")

\* C13: Option map satisfies the functor laws: x.map(identity) equals x and
\* x.map(f).map(g) equals x.map(compose(g, f)), also when f or g returns
\* the null value.
C13_OptionMapFunctorLaws ==
    call.op = "option_map_laws" =>
        /\ call.id = call.x
        /\ call.two = call.fused

C13_Witness ==
    /\ call.op = "option_map_laws"
    /\ call.x = Some("a")
    /\ call.f["a"] = None
    /\ call.g[None] = "b"
    /\ call.two = Some("b")
    /\ call.fused = Some("b")

----------------------------------------------------------------------------
(* Claims about Writer (SpecWriter)                                        *)

\* The Writer that step k of a chain returns (step 0 is the receiver): f_k
\* applied to the value of step k - 1.
RECURSIVE StepWriter(_, _, _)
StepWriter(w, fs, k) ==
    IF k = 0 THEN w ELSE fs[k][StepWriter(w, fs, k - 1).value]

\* The logs of steps 0..k, one after the other.
RECURSIVE LogsInOrder(_, _, _)
LogsInOrder(w, fs, k) ==
    IF k = 0 THEN w.log
    ELSE LogsInOrder(w, fs, k - 1) \o StepWriter(w, fs, k).log

\* C14: w.bind(f).run() is (f(w.value).value, combine(L1, L2)); over a chain
\* of binds the final log is the combination of the step logs in the order
\* the steps were chained.
C14_WriterBindCombinesLeftToRight ==
    call.op = "writer_bind_chain" =>
        /\ call.ret[1] = StepWriter(call.w, call.fs, Len(call.fs)).value
        /\ call.ret[2] = LogsInOrder(call.w, call.fs, Len(call.fs))
        /\ Len(call.fs) = 1 =>
              call.ret = <<call.fs[1][call.w.value].value,
                           monoid_list_combine(call.w.log, call.fs[1][call.w.value].log)>>

C14_Witness ==
    /\ call.op = "writer_bind_chain"
    /\ call.w = Writer("a", <<"p">>)
    /\ Len(call.fs) = 2
    /\ call.fs[1]["a"] = Writer("b", <<"q">>)
    /\ call.fs[2]["b"] = Writer("a", <<"p">>)
    /\ call.ret = <<"a", <<"p", "q", "p">>>>

----------------------------------------------------------------------------
(* Claims about or_else, to_result and try_catch (SpecCombinators)         *)

\* C15: Option.or_else is lazy: a producer given as the alternative is
\* invoked zero times when self is Some (and self is returned) and exactly
\* once when self is Absent (and the producer's result is returned).
C15_OrElseLazy ==
    (call.op = "or_else" /\ call.alt.callable) =>
        IF call.self.tag = "Some"
        THEN call.invoked = 0 /\ call.ret = call.self
        ELSE call.invoked = 1 /\ call.ret = call.alt.val

C15_Witness ==
    /\ call.op = "or_else"
    /\ call.alt = [callable |-> TRUE, val |-> Some("b")]
    /\ call.self = Some(None)
    /\ call.invoked = 0
    /\ call.ret = Some(None)

\* C16, as claimed: Some(x).to_result(err) is Ok(x) and never evaluates err;
\* Absent.to_result(e) is Err(e) for every error value e passed directly;
\* Absent.to_result(p) is Err(p()) with p invoked once for a producer p.
C16_ToResultAsClaimed ==
    call.op = "to_result" =>
        /\ call.self.tag = "Some" =>
              call.ret = Ok(call.self.value) /\ call.invoked = 0
        /\ (call.self = NONE /\ call.passed = "value") =>
              call.ret = Err(call.err)
        /\ (call.self = NONE /\ call.passed = "producer") =>
              call.ret = Err(CallOf(call.err)) /\ call.invoked = 1

\* C16, amended: Some(x).to_result(err) is Ok(x) and never evaluates err;
\* Absent.to_result(e) is Err(e) for every error value e that is not
\* callable; Absent.to_result(p) is Err(p()) with p invoked exactly once for
\* every callable p, whether the caller meant it as a producer or as the
\* error value.
C16_ToResultByCallability ==
    call.op = "to_result" =>
        /\ call.self.tag = "Some" =>
              call.ret = Ok(call.self.value) /\ call.invoked = 0
        /\ (call.self = NONE /\ ~callable(call.err)) =>
              call.ret = Err(call.err) /\ call.invoked = 0
        /\ (call.self = NONE /\ callable(call.err)) =>
              call.ret = Err(CallOf(call.err)) /\ call.invoked = 1

C16_Witness ==
    /\ call.op = "to_result"
    /\ call.self = NONE
    /\ call.err = "KeyError"
    /\ call.passed = "value"
    /\ call.ret = Err("KeyError()")
    /\ call.invoked = 1

\* C20: try_catch(fn)(args) returns Ok(result) when fn returns, Err(failure)
\* when fn raises an Exception, and lets a BaseException outside Exception
\* (cancellation, process termination) propagate to the caller.
C20_TryCatchOnlyExceptions ==
    call.op = "try_catch" =>
        LET o == call.fn[call.x] IN
        /\ o.tag = "return" => call.out = Return(Ok(o.value))
        /\ (o.tag = "raise" /\ o.error \in Exceptions) => call.out = Return(Err(o.error))
        /\ (o.tag = "raise" /\ o.error \in BaseExceptions) => call.out = Raise(o.error)

C20_Witness ==
    /\ call.op = "try_catch"
    /\ call.x = "y"
    /\ call.fn["y"] = Raise("CancelledError")
    /\ call.out = Raise("CancelledError")

----------------------------------------------------------------------------
(* Claims about thunk and once (SpecMemo)                                  *)

\* C17: across any sequence of calls to the wrapper returned by thunk(f), f
\* is computed at most once, and every call returns the result of that single
\* computation.  (Stated over the calls that pass no arguments.)
C17_ThunkComputesAtMostOnce ==
    memo.fn = "thunk" =>
        /\ Len(memo.invs) <= 1
        /\ \A i \in DOMAIN memo.calls :
              memo.calls[i].args = <<>> =>
                  /\ Len(memo.invs) = 1
                  /\ memo.calls[i].out = memo.invs[1].out

\* C18: across any sequence of calls to the wrapper returned by once(fn), fn
\* is invoked at most once, with the arguments of the first call; every later
\* call returns the first call's result and ignores its own arguments.
C18_OnceInvokesAtMostOnce ==
    (memo.fn = "once" /\ memo.calls # <<>>) =>
        /\ Len(memo.invs) = 1
        /\ memo.invs[1].args = memo.calls[1].args
        /\ \A i \in DOMAIN memo.calls : memo.calls[i].out = memo.invs[1].out

\* C19: the wrapper returned by thunk(f) accepts calls that pass arguments:
\* the arguments are ignored and the call has the outcome a call without
\* arguments has, the cached result once there is one (never a rejection of
\* the arguments).
C19_ThunkIgnoresArguments ==
    memo.fn = "thunk" =>
        \A i \in DOMAIN memo.calls :
            memo.calls[i].args # <<>> =>
                /\ memo.calls[i].out \in FnOutcomes
                /\ memo.calls[i].out.tag = "return" =>
                      memo.evaluated /\ memo.calls[i].out.value = memo.value

----------------------------------------------------------------------------
(* Claims about curry (SpecCurry)                                          *)

RECURSIVE Flatten(_)
Flatten(groups) ==
    IF groups = <<>> THEN <<>> ELSE Head(groups) \o Flatten(Tail(groups))

\* C21: for fn of n positional parameters and every split of its n arguments
\* into consecutive non-empty groups supplied over successive calls, every
\* call that leaves the count below n returns a further callable, and the
\* call where the count reaches n invokes fn exactly once with all arguments
\* in the order supplied and returns fn's result; fn is not invoked earlier.
C21_CurryAnyGrouping ==
    call.op = "curry_chain" =>
        LET last == Len(call.groups) IN
        /\ Len(call.rets) = last
        /\ \A i \in 1..(last - 1) : call.rets[i].tag = "closure"
        /\ call.rets[last].tag = "invoke"
        /\ call.rets[last].out = fn_apply(call.needed, Flatten(call.groups), NoKwargs)
        /\ call.rets[last].out.tag = "return"
        /\ call.invs = <<Flatten(call.groups)>>

C21_Witness ==
    /\ call.op = "curry_chain"
    /\ call.needed = 3
    /\ call.groups = <<<<"x">>, <<"y", "x">>>>
    /\ call.rets[1].tag = "closure"
    /\ call.rets[2].out = Return([args |-> <<"x", "y", "x">>, kwargs |-> NoKwargs])

\* C27: curry counts positional arguments only: a call of a curried callable
\* invokes fn exactly when the accumulated positional arguments reach fn's
\* positional parameter count, however many keyword arguments were passed.
C27_CurryCountsPositionalOnly ==
    call.op = "curry" =>
        \A i \in DOMAIN call.hist :
            LET e == call.hist[i] IN
            (e.ret.tag = "invoke") <=> (Len(heap[e.on].args) + Len(e.a) >= call.needed)

\* C30: a partial application produced by curry is reusable and isolated:
\* every call of a callable yields fn applied to the callable's accumulated
\* arguments followed by that call's arguments, and no call changes the
\* arguments accumulated in any callable made before or by it.
C30_CurryPartialsIsolated ==
    call.op = "curry" =>
        /\ heap[1].args = <<>>
        /\ \A i \in DOMAIN call.hist :
              LET e == call.hist[i] IN
              /\ e.ret.tag = "invoke" =>
                    /\ e.ret.args = heap[e.on].args \o e.a
                    /\ e.ret.out = fn_apply(call.needed, heap[e.on].args \o e.a,
                                            merge_kwargs(heap[e.on].kwargs, e.k))
              /\ e.ret.tag = "closure" =>
                    heap[e.ret.addr].args = heap[e.on].args \o e.a

C30_Witness ==
    /\ call.op = "curry"
    /\ call.needed = 2
    /\ Len(call.hist) = 3
    /\ call.hist[1].ret = [tag |-> "closure", addr |-> 2]
    /\ heap[2].args = <<"x">>
    /\ call.hist[2].on = 2
    /\ call.hist[2].ret.tag = "invoke"
    /\ call.hist[2].ret.out = Return([args |-> <<"x", "y">>, kwargs |-> NoKwargs])
    /\ call.hist[3].on = 2
    /\ call.hist[3].ret.tag = "invoke"
    /\ call.hist[3].ret.out = Return([args |-> <<"x", "x">>, kwargs |-> NoKwargs])

----------------------------------------------------------------------------
(* Further claims: swap, fail-fast traversal, memo wrappers, fan-in        *)

\* C23: swap is an involution on Either: for every Either value e,
\* e.swap().swap() == e, and e.swap() has the opposite variant with the same
\* payload.
C23_SwapInvolution ==
    call.op = "either_swap" =>
        /\ call.twice = call.e
        /\ call.once.tag # call.e.tag
        /\ call.once.tag \in {"Left", "Right"}
        /\ call.once.value = call.e.value

C23_Witness ==
    /\ call.op = "either_swap"
    /\ call.e = Right(None)
    /\ call.once = Left(None)
    /\ call.twice = Right(None)

\* C26: traverse_option and traverse_result stop at the first failure: if k
\* is the lowest index at which f returns Absent / Err, f is invoked exactly
\* once on each of the elements up to k, in index order, and on no later
\* element, and no element after k is pulled from the input; if no element
\* fails, f is invoked exactly once per element, in order.
C26_TraverseStopsAtFirstFailure ==
    call.op \in {"traverse_option", "traverse_result"} =>
        LET fails == {i \in 1..Len(call.xs) : call.f[call.xs[i]].tag \in {"NONE", "Err"}} IN
        IF fails # {}
        THEN /\ call.calls = UpTo(Min(fails))
             /\ call.pulled = Min(fails)
        ELSE /\ call.calls = UpTo(Len(call.xs))
             /\ call.pulled = Len(call.xs)

C26_Witness ==
    /\ call.op = "traverse_result"
    /\ call.xs = <<"x", "y", "x">>
    /\ call.f["x"] = Ok("a")
    /\ call.f["y"] = Err("b")
    /\ call.calls = <<1, 2>>
    /\ call.pulled = 2
    /\ call.ret = Err("b")

\* The calls that reach the wrapper's body: every call of a once wrapper,
\* the calls without arguments of a thunk wrapper.
BodyCalls ==
    IF memo.fn = "thunk"
    THEN SelectSeq(memo.calls, LAMBDA c : c.args = <<>>)
    ELSE memo.calls

Returned(cs) == {i \in 1..Len(cs) : cs[i].out.tag = "return"}

MemoFlag  == IF memo.fn = "thunk" THEN memo.evaluated ELSE memo.called
MemoValue == IF memo.fn = "thunk" THEN memo.value ELSE memo.result

C29_GatherVariantsAgree ==
    (kind \in GatherKinds /\ hpc = "done") =>
        LET g == IF kind = "gather_results"
                 THEN ret ELSE gather_results(GatherResultList(tasks, order))
            a == IF kind = "gather_results_accumulate"
                 THEN ret ELSE gather_results_accumulate(GatherResultList(tasks, order))
        IN  /\ (g.tag = "Ok") <=> (a.tag = "Ok")
            /\ g.tag = "Ok" /\ a.tag = "Ok" => g.value = a.value
            /\ a.tag = "Err" => g.tag = "Err" /\ g.error = a.error[1]

----------------------------------------------------------------------------
(* Claims about reduce (SpecReduce)                                        *)

\* foldl(f, init, xs[from..]) as a value.
RECURSIVE FoldLeft(_, _, _, _)
FoldLeft(f, acc, xs, from) ==
    IF from > Len(xs) THEN acc ELSE FoldLeft(f, f[<<acc, xs[from]>>], xs, from + 1)

\* C22: reduce(f, xs) is Absent if and only if xs is empty; for non-empty
\* xs = [x0, x1, ..., xn] it is Some(foldl(f, x0, [x1..xn])), so on a
\* single-element input it is Some(x0) and f is never invoked; the Absent
\* returned on empty input is the shared Absent singleton.
C22_ReduceSeedsWithFirst ==
    call.op = "reduce" =>
        LET xs == heap[call.xs].items IN
        /\ (heap[call.ret].tag = "NONE") <=> (xs = <<>>)
        /\ xs = <<>> => call.ret = NoneAddr /\ call.calls = <<>>
        /\ xs # <<>> => heap[call.ret] = Some(FoldLeft(call.f, xs[1], xs, 2))
        /\ Len(xs) = 1 => heap[call.ret] = Some(xs[1]) /\ call.calls = <<>>
        /\ Len(call.calls) = IF xs = <<>> THEN 0 ELSE Len(xs) - 1

C22_Witness ==
    /\ call.op = "reduce"
    /\ heap[call.xs].items = <<"x", "y", "y">>
    /\ call.f[<<"x", "y">>] = "y"
    /\ call.f[<<"y", "y">>] = "x"
    /\ heap[call.ret] = Some("x")
    /\ call.calls = << <<"x", "y">>, <<"y", "y">> >>

----------------------------------------------------------------------------
(* Claims about object identity and mutation (SpecHeap)                    *)

\* C24: Absent is a singleton: every Absent returned by the library's own
\* operations (map / bind on Absent, from_nullable(null), sequence_option
\* and traverse_option on failure) is the one shared instance.
C24_AbsentIsShared ==
    /\ (call.op \in {"Option.map", "Option.bind"} /\ heap[call.self].tag = "NONE") =>
          call.ret = NoneAddr
    /\ (call.op = "from_nullable" /\ call.arg = None) =>
          call.ret = NoneAddr
    /\ (call.op = "sequence_option"
          /\ \E i \in DOMAIN heap[call.self].items : heap[heap[call.self].items[i]].tag = "NONE") =>
          call.ret = NoneAddr
    /\ (call.op = "traverse_option"
          /\ \E i \in DOMAIN heap[call.self].items :
                heap[call.arg[heap[call.self].items[i]]].tag = "NONE") =>
          call.ret = NoneAddr
    /\ (call.op \in {"Option.map", "from_nullable", "sequence_option", "traverse_option"}
          /\ heap[call.ret].tag = "NONE") =>
          call.ret = NoneAddr

C24_Witness ==
    /\ call.op = "Option.map"
    /\ call.self = 2
    /\ heap[2] = NONE
    /\ call.ret = NoneAddr
    /\ call.n = 2

\* C25: no combinator mutates in place: across every call of an Option /
\* Result / Either combinator and of sequence_* / traverse_*, every object
\* constructed before the call keeps its variant and payload, and the input
\* list keeps its items.
C25_NoMutationInPlace ==
    [][\A i \in DOMAIN heap : i \in DOMAIN heap' /\ heap'[i] = heap[i]]_vars

C25_Witness ==
    /\ call.op = "Either.swap"
    /\ call.n = 2
    /\ heap[call.self] = Left("a")
    /\ heap[call.ret] = Right("a")
    /\ call.ret # call.self
    /\ Len(heap) = Len(BaseHeap) + 2
    /\ SubSeq(heap, 1, Len(BaseHeap)) = BaseHeap

====
